---- MODULE Spec2Model ----
(***************************************************************************)
(* Model of the Motia workflow runtime (backend/src/motia/motia.ts), its   *)
(* SQLite execution store (DatabaseService.saveWorkflow / getWorkflow) and *)
(* the wait-for-verification step handler.                                 *)
(*                                                                         *)
(* Granularity.  The runtime is single-threaded JavaScript: code between   *)
(* two real suspensions (a handler awaiting I/O, a backoff setTimeout)     *)
(* runs to completion.  A "run" is one invocation of executeWorkflow; it   *)
(* is suspended either inside a task handler (pc = "handler") or in a      *)
(* backoff sleep (pc = "sleep").  Every action executes the code of one    *)
(* run from a suspension point to the next one.                            *)
(***************************************************************************)
EXTENDS Integers, Sequences, FiniteSets, TLC

(***************************************************************************)
(* Bounds of the model.                                                    *)
(***************************************************************************)
\* signalWorkflow calls that pass the status guard, per model run
MaxSignals == 2
\* direct executeWorkflow calls (specification SpecExec only)
MaxDirectCalls == 1
\* restarts of the server process (specification SpecRestart only)
MaxRestarts == 1

\* verify requests the model follows
MaxVerifyRequests == 2

(***************************************************************************)
(* Program constants.                                                      *)
(***************************************************************************)
\* stepDef.retryPolicy?.maxAttempts ?? 3
DefaultMaxAttempts == 3

PAUSE_MARKER == "WORKFLOW_PAUSED_WAITING_FOR_SIGNAL"

Undefined == "undefined"

\* values that stand for "no such thing" where the thing is an object
NoRecord == [absent |-> "row"]

NoDefinition == [absent |-> "definition"]

NoPolicy == [absent |-> "retryPolicy"]

NoValue == [absent |-> "value"]

ExecIds == {"e1"}
UserIds == {"u1", "u2"}

\* the (event, data.userId) pairs signalWorkflow is called with
SignalInputs == {<<"verified", "u1">>, <<"verified", "u2">>, <<"other", "u1">>}

\* The error messages handlers throw.  A task handler's ordinary failure at
\* attempt k carries a message that names k, so that "the last error" can be
\* told from an earlier one.
PauseMessage == "WORKFLOW_PAUSED_WAITING_FOR_SIGNAL:verified"

TaskMessage(attempt) == "task failed at attempt " \o ToString(attempt)

\* the send step reads user.email of an input that has no user
TypeErrorMessage == "Cannot read properties of undefined (reading 'email')"

\* variant: a runtime that does not look for the pause marker
IgnoresPauseMarker(msg) == FALSE

\* errorMessage.includes('WORKFLOW_PAUSED_WAITING_FOR_SIGNAL')
IsPauseMessage(msg) == msg = PauseMessage

(***************************************************************************)
(* Values threaded through the steps.  A value is an object with a userId  *)
(* field (with the user it comes from), the verificationToken the send     *)
(* step adds, and the trail of the handlers that produced it               *)
(* ({...input, more}).                                                     *)
(***************************************************************************)
EmptyObject == [userId |-> Undefined, verificationToken |-> NoValue, trail |-> <<>>]

InitialInputs == {[userId |-> "u1", verificationToken |-> NoValue, trail |-> <<>>]}

\* the object a task handler returns as output: {...context.input, <own fields>}
TaskOutput(stepId, input) == [input EXCEPT !.trail = Append(@, stepId)]

(***************************************************************************)
(* Step and workflow definitions: the inputs of registerWorkflow.          *)
(***************************************************************************)
StepDef(id, handler, policy) == [id |-> id, handler |-> handler, retryPolicy |-> policy]

RetryPolicy(n) == [maxAttempts |-> n]

\* the wait step of steps/waitForVerification.step.ts: no retry policy
waitForVerificationStep == StepDef("wait-for-verification", "wait", NoPolicy)

\* the send step of the signup workflow, with a retry policy (the source
\* allows 5 attempts; 2 are enough for a retry to take place)
sendVerificationEmailStep == StepDef("send-verification-email", "send", RetryPolicy(2))

\* the signup workflow as far as the email goes: createUser, the send step,
\* the wait
EmailWorkflowInputs ==
  { [id |-> "wf", steps |-> << StepDef("create-user", "task", RetryPolicy(1)), sendVerificationEmailStep,
                              waitForVerificationStep >>] }

\* the definitions registerWorkflow is called with: a task with retries, a
\* wait and a task with the default policy; a workflow that starts with the
\* wait; a chain of three tasks; a single step whose handler may also ask
\* for a pause after an await (handler "gate")
WorkflowInputs ==
  { [id |-> "wf", steps |-> << StepDef("a", "task", RetryPolicy(2)), waitForVerificationStep,
                              StepDef("b", "task", NoPolicy) >>],
    [id |-> "wf", steps |-> << waitForVerificationStep, StepDef("b", "task", RetryPolicy(1)) >>],
    [id |-> "wf", steps |-> << StepDef("a", "task", RetryPolicy(1)), StepDef("b", "task", RetryPolicy(1)),
                              StepDef("c", "task", RetryPolicy(1)) >>],
    [id |-> "wf", steps |-> << StepDef("g", "gate", RetryPolicy(2)) >>] }

\* the definition registerWorkflow is called with while executions exist:
\* the same id with a shorter body
LateWorkflowInputs ==
  { [id |-> "wf", steps |-> << waitForVerificationStep, StepDef("b", "task", RetryPolicy(1)) >>] }

WorkflowIds == {"wf"}

\* the ids startWorkflow is called with: a registered one and one never registered
StartIds == WorkflowIds \cup {"nonexistent"}

\* how an awaited handler settles: it returns, throws an ordinary error, or
\* throws the pause error
Outcomes == {"ok", "fail", "pause"}

\* const maxAttempts = stepDef.retryPolicy?.maxAttempts ?? 3
MaxAttemptsOf(stepDef) ==
  IF stepDef.retryPolicy = NoPolicy THEN DefaultMaxAttempts ELSE stepDef.retryPolicy.maxAttempts

(***************************************************************************)
(* State.                                                                  *)
(***************************************************************************)
VARIABLES
  workflowDefinitions,  \* MotiaRuntime.workflowDefinitions: id -> definition | NoDefinition
  workflowState,        \* MotiaRuntime.workflowState: execution id -> (key -> value)
  db,                   \* the workflows table: execution id -> row | NoRecord
  runs,                 \* the executeWorkflow invocations made so far, in call order
  signalCount,          \* accepted signalWorkflow calls so far
  directCount,          \* direct executeWorkflow calls so far
  rejected,             \* the last call that was refused or ignored, and how it ended
  restartCount,         \* restarts of the server process so far
  sentEmailsPerWorkflow, \* the module-level Map of the send step: execution id -> set of userIds
  emails,               \* the verification emails the email service delivered: execution id -> tokens
  tokenCount,           \* verification tokens generated so far (uuidv4 never repeats)
  verificationTokens,   \* table verification_tokens: rows of token and user_id
  requests              \* GET /api/verify requests received so far, and their responses

vars == <<workflowDefinitions, workflowState, db, runs, signalCount, directCount, rejected,
          restartCount, sentEmailsPerWorkflow, emails, tokenCount,
          verificationTokens, requests>>

StateKeys == {"signal:verified", "signal:other", "waitingForVerification", "waitingUserId",
              "verificationToken"}

EmptyState == [k \in StateKeys |-> NoValue]

(***************************************************************************)
(* Execution records.                                                      *)
(***************************************************************************)
\* variant: step records created as if their first attempt had begun
NewStepExecutionStarted(stepDef) ==
  [ stepId |-> stepDef.id, status |-> "running", attempts |-> 1,
    startedAt |-> Undefined, completedAt |-> Undefined,
    error |-> Undefined, output |-> NoValue, logs |-> <<>> ]

\* startWorkflow: workflowDef.steps.map(step => ({stepId, status: 'pending', attempts: 0, logs: []}))
NewStepExecution(stepDef) ==
  [ stepId |-> stepDef.id, status |-> "pending", attempts |-> 0,
    startedAt |-> Undefined, completedAt |-> Undefined,
    error |-> Undefined, output |-> NoValue, logs |-> <<>> ]

\* startWorkflow: the fresh WorkflowExecution
NewExecution(id, workflowDef) ==
  [ id |-> id, workflowId |-> workflowDef.id, status |-> "running",
    currentStep |-> Undefined, completedAt |-> Undefined,
    steps |-> [i \in 1..Len(workflowDef.steps) |-> NewStepExecution(workflowDef.steps[i])] ]

\* JSON.stringify turns a Date into an ISO string; JSON.parse leaves it a string
JsonDate(d) == IF d = "Date" THEN "string" ELSE d

\* JSON.parse(JSON.stringify(steps)): undefined fields vanish (they read back as
\* undefined), Dates come back as strings
JsonSteps(steps) ==
  [i \in 1..Len(steps) |->
     [steps[i] EXCEPT !.startedAt = JsonDate(@), !.completedAt = JsonDate(@)]]

\* variant: a store that does not keep the current step of an execution
SaveWorkflowWithoutCurrentStep(execution) ==
  [ id |-> execution.id, workflowId |-> execution.workflowId,
    status |-> execution.status,
    currentStep |-> Undefined,
    completedAt |-> execution.completedAt,
    steps |-> JsonSteps(execution.steps) ]

\* DatabaseService.saveWorkflow followed by the row mapping of getWorkflow:
\* completedAt is written as an ISO string and read back with new Date(...),
\* the steps go through JSON
SaveWorkflow(execution) ==
  [ id |-> execution.id, workflowId |-> execution.workflowId,
    status |-> execution.status,
    currentStep |-> execution.currentStep,
    completedAt |-> execution.completedAt,
    steps |-> JsonSteps(execution.steps) ]

\* logStep: stepExecution.logs.push({timestamp, message, data})
LogStep(stepExecution, message) ==
  [stepExecution EXCEPT !.logs = Append(@, message)]

\* execution.steps.find(s => s.stepId === id): index of the first match, 0 if none
FindStep(steps, id) ==
  IF \E i \in 1..Len(steps) : steps[i].stepId = id
  THEN CHOOSE i \in 1..Len(steps) :
         /\ steps[i].stepId = id
         /\ \A j \in 1..(i - 1) : steps[j].stepId # id
  ELSE 0

\* workflowDef.steps.findIndex(s => s.id === id), 1-based; 0 stands for -1
FindIndex(stepDefs, id) ==
  IF \E i \in 1..Len(stepDefs) : stepDefs[i].id = id
  THEN CHOOSE i \in 1..Len(stepDefs) :
         /\ stepDefs[i].id = id
         /\ \A j \in 1..(i - 1) : stepDefs[j].id # id
  ELSE 0

(***************************************************************************)
(* The engine.  A context c carries the run r being executed, the store's  *)
(* row of its execution, the signal state ws of its execution and the      *)
(* state of the email step (sent, emails, tokenCount); the operators below *)
(* transform it the way the code does, up to the next suspension point of  *)
(* the run.                                                                *)
(*                                                                         *)
(* r.calls records every handler invocation of the run: step index,        *)
(* attempt, input and outcome ("inflight" until the handler settles).      *)
(***************************************************************************)
\* the StepExecution the loop body works on: execution.steps.find(...)
Cur(r) == FindStep(r.exec.steps, r.def.steps[r.idx].id)

\* database.saveWorkflow(execution)
Save(c) == [c EXCEPT !.row = SaveWorkflow(c.r.exec)]

\* variant: every attempt marked as running
AlwaysRunning(attempt) == "running"

\* stepExecution.status = attempt === 1 ? 'running' : 'retrying'
AttemptStatus(attempt) == IF attempt = 1 THEN "running" ELSE "retrying"

\* variant: a loop that makes one attempt too many
LoopRunsOver(attempt, maxAttempts) == attempt <= maxAttempts + 1

\* variant: a loop that stops one attempt early
LoopStopsEarly(attempt, maxAttempts) == attempt < maxAttempts

\* the attempt loop goes on: attempt <= maxAttempts
LoopContinues(attempt, maxAttempts) == attempt <= maxAttempts

\* a backoff sleep follows a failed attempt: attempt < maxAttempts
SleepsAfter(attempt, maxAttempts) == attempt < maxAttempts

\* variant: a step loop that skips nothing
SkipsNothing(stepExecution) == FALSE

\* the "already completed" test of the step loop
SkipsStep(stepExecution) == stepExecution.status = "completed"

\* stepExecution.logs.some(log => log.message.includes('WORKFLOW_PAUSED_WAITING_FOR_SIGNAL'))
HasPauseLog(stepExecution) ==
  \E i \in 1..Len(stepExecution.logs) : stepExecution.logs[i] = "WORKFLOW_PAUSED_WAITING_FOR_SIGNAL: verified"

\* variant: a success branch that leaves the status of the step as it was
CompletedStepKeepsStatus(stepExecution, output) ==
  LogStep([stepExecution EXCEPT !.completedAt = "Date",
                                !.output = output], "Step completed successfully")

\* the success branch of executeStepWithRetry on the StepExecution
CompletedStep(stepExecution, output) ==
  LogStep([stepExecution EXCEPT !.status = "completed",
                                !.completedAt = "Date",
                                !.output = output], "Step completed successfully")

\* what a handler threw, as the record of its invocation names it
Thrown(errorMessage) == IF errorMessage = PauseMessage THEN "pause" ELSE "fail"

SetCall(c, outcome) ==
  [c EXCEPT !.r.calls[Len(c.r.calls)].outcome = outcome]

\* the .catch of startWorkflow: an error that is not a pause marks the
\* execution failed and saves it; signalWorkflow and a direct caller let the
\* error propagate
CallerCatches(origin) == origin = "start"

\* executeWorkflow rejected with an ordinary error
RunThrew(c) ==
  LET c1 == [c EXCEPT !.r.pc = "done", !.r.result = "threw"]
  IN IF CallerCatches(c.r.origin)
     THEN Save([c1 EXCEPT !.r.exec.status = "failed"])
     ELSE c1

\* variant: a pause handled as an ordinary error of the run
RunPausedAsFailure(c) == RunThrew(c)

\* variant: a pause that is not written to the store
RunPausedUnsaved(c) ==
  [c EXCEPT !.r.exec.status = "paused", !.r.pc = "done", !.r.result = "paused"]

\* the catch block of executeWorkflow for a pause: status paused, save, return
RunPaused(c) ==
  Save([c EXCEPT !.r.exec.status = "paused", !.r.pc = "done", !.r.result = "paused"])

\* after the attempt loop: status failed, completedAt, throw lastError
Exhausted(c) ==
  LET k == Cur(c.r)
  IN RunThrew([c EXCEPT !.r.exec.steps[k].status = "failed",
                        !.r.exec.steps[k].completedAt = "Date"])

\* variant: a completion that leaves currentStep as the last step set it
RunCompletedKeepsCurrentStep(c) ==
  Save([c EXCEPT !.r.exec.status = "completed", !.r.exec.completedAt = "Date",
                 !.r.pc = "done", !.r.result = "completed"])

\* after the step loop: status completed, completedAt, currentStep cleared, save
RunCompleted(c) ==
  Save([c EXCEPT !.r.exec.status = "completed", !.r.exec.completedAt = "Date",
                 !.r.exec.currentStep = Undefined,
                 !.r.pc = "done", !.r.result = "completed"])

\* variant: the current step set on the execution but not written to the store
EnterStepUnsaved(c) == [c EXCEPT !.r.exec.currentStep = c.r.def.steps[c.r.idx].id]

\* execution.currentStep = stepDef.id; database.saveWorkflow(execution)
EnterStep(c) == Save([c EXCEPT !.r.exec.currentStep = c.r.def.steps[c.r.idx].id])

\* The operators below bind their arguments to values before they use them
\* (Once picks the element of the singleton), so that an argument expression
\* is evaluated one time however often the body mentions it.
Once(singleton) == CHOOSE x \in singleton : TRUE

RECURSIVE ExecuteFrom(_)
RECURSIVE StartAttempt(_, _)
RECURSIVE HandlerSucceeded(_, _)
RECURSIVE HandlerThrew(_, _)
RECURSIVE WaitHandler(_)
RECURSIVE SendHandler(_)

\* the for loop of executeWorkflow, from position c.r.idx on
ExecuteFrom(c0) ==
  LET Body(c) ==
      IF c.r.idx > Len(c.r.def.steps)
      THEN RunCompleted(c)
      ELSE LET k == Cur(c.r)
           IN IF k = 0
              THEN ExecuteFrom([c EXCEPT !.r.idx = @ + 1])
              ELSE IF SkipsStep(c.r.exec.steps[k])
              THEN ExecuteFrom([c EXCEPT !.r.input = c.r.exec.steps[k].output, !.r.idx = @ + 1])
              ELSE StartAttempt(EnterStep(c), 1)
  IN Once({Body(c) : c \in {c0}})

\* one iteration of the attempt loop of executeStepWithRetry, up to the handler call
StartAttempt(c0, attempt0) ==
  LET Body(c, attempt) ==
      LET k == Cur(c.r)
          stepDef == c.r.def.steps[c.r.idx]
      IN IF ~LoopContinues(attempt, MaxAttemptsOf(stepDef))
         THEN Exhausted(c)
         ELSE LET c1 == [c EXCEPT !.r.attempt = attempt,
                                  !.r.exec.steps[k] =
                                    LogStep([@ EXCEPT !.attempts = attempt,
                                                      !.status = AttemptStatus(attempt),
                                                      !.startedAt = "Date"], "Attempt"),
                                  !.r.calls = Append(@, [step |-> c.r.idx, attempt |-> attempt,
                                                         input |-> c.r.input, outcome |-> "inflight"])]
              IN IF stepDef.handler = "wait"
                 THEN WaitHandler(c1)
                 ELSE IF stepDef.handler = "send"
                 THEN SendHandler(c1)
                 ELSE [c1 EXCEPT !.r.pc = "handler"]
  IN Once({Body(c, attempt) : c \in {c0}, attempt \in {attempt0}})

\* variant: a wait that does not see the signal
MatchesNothing(verificationSignal, userId) == FALSE

\* variant: a wait that accepts the verification of any user
MatchesAnyUser(verificationSignal, userId) == verificationSignal # NoValue

\* verificationSignal && verificationSignal.userId === userId
SignalMatches(verificationSignal, userId) ==
  IF verificationSignal = NoValue THEN FALSE ELSE verificationSignal.userId = userId

\* waitForVerificationStep.handler
WaitHandler(c0) ==
  LET Body(c) ==
      LET k == Cur(c.r)
          userId == c.r.input.userId
          verificationSignal == c.ws["signal:verified"]
          c1 == [c EXCEPT !.r.exec.steps[k] = LogStep(@, "Checking for user verification")]
      IN IF SignalMatches(verificationSignal, userId)
         THEN HandlerSucceeded(
                [c1 EXCEPT !.r.exec.steps[k] = LogStep(@, "Verification signal received, proceeding")],
                TaskOutput(c.r.def.steps[c.r.idx].id, c.r.input))
         ELSE HandlerThrew(
                [c1 EXCEPT !.r.exec.steps[k] = LogStep(@, "WORKFLOW_PAUSED_WAITING_FOR_SIGNAL: verified"),
                           !.ws["waitingForVerification"] = [value |-> "true"],
                           !.ws["waitingUserId"] = [value |-> userId]],
                PauseMessage)
  IN Once({Body(c) : c \in {c0}})

\* the output of the send step: {...context.input, verificationToken}
SendOutput(stepId, input, token) ==
  [TaskOutput(stepId, input) EXCEPT !.verificationToken = token]

\* workflowEmails.has(userId), then the stored token if there is one
AlreadySent(sent, userId, existingToken) == userId \in sent /\ existingToken # NoValue

\* database.setVerificationToken(token, userId, 24): INSERT OR REPLACE of the row
SetVerificationToken(table, token, userId) ==
  {row \in table : row.token # token} \cup {[token |-> token, userId |-> userId]}

\* sendVerificationEmailStep.handler up to its await: the idempotency check,
\* then a new token and the call of the email service
SendHandler(c0) ==
  LET Body(c) ==
      LET k == Cur(c.r)
          userId == c.r.input.userId
          existingToken == c.ws["verificationToken"]
      IN IF userId = Undefined
         THEN HandlerThrew(c, TypeErrorMessage)
         ELSE LET c1 == [c EXCEPT !.r.exec.steps[k] = LogStep(@, "Preparing to send verification email")]
              IN IF AlreadySent(c.sent, userId, existingToken)
                 THEN HandlerSucceeded(
                        [c1 EXCEPT !.r.exec.steps[k] =
                                     LogStep(@, "Email already sent for this workflow, skipping duplicate")],
                        SendOutput(c.r.def.steps[c.r.idx].id, c.r.input, existingToken))
                 ELSE [c1 EXCEPT !.tokenCount = @ + 1,
                                 !.tokens = SetVerificationToken(@, c.tokenCount + 1, userId),
                                 !.r.token = [token |-> c.tokenCount + 1],
                                 !.r.pc = "handler"]
  IN Once({Body(c) : c \in {c0}})

\* sendVerificationEmailStep.handler after its await, the email service
\* having delivered the email: mark as sent, keep the token, return it
EmailSent(c) ==
  LET k == Cur(c.r)
      userId == c.r.input.userId
  IN [c EXCEPT !.emails = Append(@, c.r.token),
               !.sent = @ \cup {userId},
               !.ws["verificationToken"] = c.r.token,
               !.r.exec.steps[k] = LogStep(@, "Verification email sent successfully")]

\* the handler returned: step completed, then the rest of the loop body
HandlerSucceeded(c0, output0) ==
  LET Body(c, output) ==
      LET k == Cur(c.r)
          c1 == SetCall([c EXCEPT !.r.exec.steps[k] = CompletedStep(@, output)], "ok")
          stepExecution == c1.r.exec.steps[k]
      IN IF stepExecution.status = "failed"
         THEN Save([c1 EXCEPT !.r.exec.status = "failed", !.r.pc = "done", !.r.result = "failed"])
         ELSE IF stepExecution.status = "running" /\ HasPauseLog(stepExecution)
         THEN Save([c1 EXCEPT !.r.exec.status = "paused", !.r.pc = "done", !.r.result = "paused"])
         ELSE ExecuteFrom([c1 EXCEPT !.r.input = output, !.r.idx = @ + 1])
  IN Once({Body(c, output) : c \in {c0}, output \in {output0}})

\* the handler threw: the catch block of the attempt loop
HandlerThrew(c0, errorMessage0) ==
  LET Body(c, errorMessage) ==
      LET k == Cur(c.r)
          stepDef == c.r.def.steps[c.r.idx]
      IN IF IsPauseMessage(errorMessage)
         THEN RunPaused(SetCall([c EXCEPT !.r.exec.steps[k] =
                                            LogStep([@ EXCEPT !.status = "running",
                                                              !.error = Undefined],
                                                    "Workflow paused, waiting for signal")],
                                Thrown(errorMessage)))
         ELSE LET c1 == SetCall([c EXCEPT !.r.exec.steps[k] =
                                            LogStep([@ EXCEPT !.error = errorMessage], "Attempt failed")],
                                Thrown(errorMessage))
              IN IF SleepsAfter(c.r.attempt, MaxAttemptsOf(stepDef))
                 THEN [c1 EXCEPT !.r.pc = "sleep"]
                 ELSE StartAttempt(c1, c.r.attempt + 1)
  IN Once({Body(c, errorMessage) : c \in {c0}, errorMessage \in {errorMessage0}})

\* a fresh run of executeWorkflow(execution, initialInput)
NewRun(eid, origin, def, execution, initialInput, loadedStatus, signal, prev) ==
  [ eid |-> eid, origin |-> origin, def |-> def,
    loadedStatus |-> loadedStatus, signal |-> signal, prev |-> prev,
    exec |-> [execution EXCEPT !.currentStep = Undefined],
    idx |-> 1, input |-> initialInput, attempt |-> 0,
    pc |-> "entry", result |-> "none", calls |-> <<>>,
    entry |-> execution.steps, initialInput |-> initialInput,
    epoch |-> restartCount, token |-> NoValue ]

\* what the code of a run of execution eid works on besides the run itself
Env(eid) ==
  [ ws |-> workflowState[eid], sent |-> sentEmailsPerWorkflow[eid],
    emails |-> emails[eid], tokenCount |-> tokenCount, tokens |-> verificationTokens ]

Context(r, row, env) ==
  [ r |-> r, row |-> row, ws |-> env.ws, sent |-> env.sent,
    emails |-> env.emails, tokenCount |-> env.tokenCount, tokens |-> env.tokens ]

Ctx(r) == Context(r, db[r.eid], Env(r.eid))

\* no call has been refused or ignored yet
NoCall == [op |-> "none", id |-> "none", result |-> "none"]

\* this.workflowDefinitions.get(workflowId)
GetDefinition(workflowId) ==
  IF workflowId \in DOMAIN workflowDefinitions THEN workflowDefinitions[workflowId] ELSE NoDefinition

(***************************************************************************)
(* Initial state: the runtime and the store right after construction.      *)
(***************************************************************************)
Init ==
  /\ workflowDefinitions = [w \in WorkflowIds |-> NoDefinition]
  /\ workflowState = [e \in ExecIds |-> EmptyState]
  /\ db = [e \in ExecIds |-> NoRecord]
  /\ runs = <<>>
  /\ signalCount = 0
  /\ directCount = 0
  /\ rejected = NoCall
  /\ restartCount = 0
  /\ sentEmailsPerWorkflow = [e \in ExecIds |-> {}]
  /\ emails = [e \in ExecIds |-> <<>>]
  /\ tokenCount = 0
  /\ verificationTokens = {}
  /\ requests = <<>>

\* the effect of executing run code: the run is stored at position i, the
\* row and the signal state of its execution are written back
Commit(i, c0) ==
  \E c \in {c0} :
    /\ runs' = [j \in 1..(IF i > Len(runs) THEN i ELSE Len(runs)) |-> IF j = i THEN c.r ELSE runs[j]]
    /\ db' = [db EXCEPT ![c.r.eid] = c.row]
    /\ workflowState' = [workflowState EXCEPT ![c.r.eid] = c.ws]
    /\ sentEmailsPerWorkflow' = [sentEmailsPerWorkflow EXCEPT ![c.r.eid] = c.sent]
    /\ emails' = [emails EXCEPT ![c.r.eid] = c.emails]
    /\ tokenCount' = c.tokenCount
    /\ verificationTokens' = c.tokens

(***************************************************************************)
(* Operations.                                                             *)
(***************************************************************************)
\* registerWorkflow, called by the server at startup before it serves requests
RegisterWorkflow(workflow) ==
  /\ \A e \in ExecIds : db[e] = NoRecord
  /\ workflowDefinitions[workflow.id] # workflow
  /\ workflowDefinitions' = [workflowDefinitions EXCEPT ![workflow.id] = workflow]
  /\ UNCHANGED <<workflowState, db, runs, signalCount, directCount, rejected, restartCount, requests,
               sentEmailsPerWorkflow, emails, tokenCount, verificationTokens>>

\* registerWorkflow(workflow) called while executions exist: the same Map.set
RegisterWorkflowLate(workflow) ==
  /\ \E e \in ExecIds : db[e] # NoRecord
  /\ workflowDefinitions[workflow.id] # workflow
  /\ workflowDefinitions' = [workflowDefinitions EXCEPT ![workflow.id] = workflow]
  /\ UNCHANGED <<workflowState, db, runs, signalCount, directCount, rejected, restartCount, requests,
               sentEmailsPerWorkflow, emails, tokenCount, verificationTokens>>

\* variant: a startWorkflow that returns normally for an unknown id
NotFoundSwallowed(workflowId) == [op |-> "startWorkflow", id |-> workflowId, result |-> "returned"]

\* what the caller of startWorkflow gets for an id without a definition:
\* throw new Error(`Workflow ${workflowId} not found`)
NotFound(workflowId) == [op |-> "startWorkflow", id |-> workflowId, result |-> "threw: not found"]

\* startWorkflow(workflowId, initialInput) for an id that has no definition
StartWorkflowNotFound(workflowId) ==
  /\ GetDefinition(workflowId) = NoDefinition
  /\ rejected' = NotFound(workflowId)
  /\ UNCHANGED <<workflowDefinitions, workflowState, db, runs, signalCount, directCount, restartCount, requests,
               sentEmailsPerWorkflow, emails, tokenCount, verificationTokens>>

\* startWorkflow(workflowId, initialInput) for a registered workflow: the new
\* execution is saved and executeWorkflow runs up to its first suspension
StartWorkflow(eid, workflowId, initialInput) ==
  /\ db[eid] = NoRecord
  /\ workflowDefinitions[workflowId] # NoDefinition
  /\ LET workflowDef == workflowDefinitions[workflowId]
         execution == NewExecution(eid, workflowDef)
         r == NewRun(eid, "start", workflowDef, execution, initialInput, "none", NoValue, 0)
     IN Commit(Len(runs) + 1,
               ExecuteFrom(Context(r, SaveWorkflow(execution), Env(eid))))
  /\ UNCHANGED <<workflowDefinitions, signalCount, directCount, rejected, restartCount, requests>>

\* a handler that was awaiting I/O settles: it returns its output, throws an
\* ordinary error or (a gate) throws the pause error
HandlerReturns(i, outcome) ==
  /\ runs[i].pc = "handler"
  /\ outcome = "pause" => runs[i].def.steps[runs[i].idx].handler = "gate"
  /\ LET r == runs[i]
         stepDef == r.def.steps[r.idx]
     IN Commit(i, IF outcome = "ok"
                  THEN (IF stepDef.handler = "send"
                        THEN HandlerSucceeded(EmailSent(Ctx(r)), SendOutput(stepDef.id, r.input, r.token))
                        ELSE HandlerSucceeded(Ctx(r), TaskOutput(stepDef.id, r.input)))
                  ELSE HandlerThrew(Ctx(r), IF outcome = "pause" THEN PauseMessage
                                            ELSE TaskMessage(r.attempt)))
  /\ UNCHANGED <<workflowDefinitions, signalCount, directCount, rejected, restartCount, requests>>

\* the backoff timer of a run fires: next iteration of the attempt loop
BackoffElapses(i) ==
  /\ runs[i].pc = "sleep"
  /\ Commit(i, StartAttempt(Ctx(runs[i]), runs[i].attempt + 1))
  /\ UNCHANGED <<workflowDefinitions, signalCount, directCount, rejected, restartCount, requests>>

\* variant: a guard that lets every existing execution through
AcceptsAnyStatus(execution) == TRUE

\* signalWorkflow lets the call through for these statuses of the loaded execution
SignalGuard(execution) == execution.status \in {"running", "paused"}

\* const resumeInput = lastCompletedStep?.output || {}
ResumeInput(workflowDef, execution) ==
  LET currentStepIndex == FindIndex(workflowDef.steps, execution.currentStep)
  IN IF currentStepIndex > 1 /\ currentStepIndex - 1 <= Len(execution.steps)
        /\ execution.steps[currentStepIndex - 1].output # NoValue
     THEN execution.steps[currentStepIndex - 1].output
     ELSE EmptyObject

\* variant: a reset that hits the step before the current one
ResetPreviousStep(execution) ==
  LET k == FindStep(execution.steps, execution.currentStep)
  IN IF k <= 1 THEN execution
     ELSE [execution EXCEPT !.steps[k - 1].status = "pending", !.steps[k - 1].error = Undefined]

\* waitingStep.status = 'pending'; waitingStep.error = undefined
ResetWaitingStep(execution) ==
  LET k == FindStep(execution.steps, execution.currentStep)
  IN IF k = 0 THEN execution
     ELSE [execution EXCEPT !.steps[k].status = "pending", !.steps[k].error = Undefined]

\* variant: every payload stored under one key the wait step does not read
SignalKeyUnread(event) == "signal:other"

\* the key signalWorkflow stores the payload under: `signal:${event}`
SignalKey(event) == "signal:" \o event

\* the body of signalWorkflow(workflowId, event, data) on an execution that
\* passes the guard, whoever calls it
SignalWorkflowCall(eid, event, userId) ==
  /\ <<event, userId>> \in SignalInputs
  /\ signalCount < MaxSignals
  /\ db[eid] # NoRecord
  /\ SignalGuard(db[eid])
  /\ signalCount' = signalCount + 1
  /\ LET loaded == db[eid]
         ws == [workflowState[eid] EXCEPT ![SignalKey(event)] = [userId |-> userId]]
         execution == [loaded EXCEPT !.status = "running"]
         workflowDef == workflowDefinitions[execution.workflowId]
     IN IF workflowDef # NoDefinition /\ execution.currentStep # Undefined
        THEN Commit(Len(runs) + 1,
                    ExecuteFrom(Context(NewRun(eid, "signal", workflowDef, ResetWaitingStep(execution),
                                               ResumeInput(workflowDef, execution), loaded.status,
                                               [event |-> event, userId |-> userId], 0),
                                        db[eid], [Env(eid) EXCEPT !.ws = ws])))
        ELSE /\ workflowState' = [workflowState EXCEPT ![eid] = ws]
             /\ UNCHANGED <<db, runs, sentEmailsPerWorkflow, emails, tokenCount, verificationTokens>>
  /\ UNCHANGED <<workflowDefinitions, directCount, rejected, restartCount>>

\* signalWorkflow(workflowId, event, data) called directly on the runtime
SignalWorkflow(eid, event, userId) ==
  /\ SignalWorkflowCall(eid, event, userId)
  /\ UNCHANGED requests

\* what the caller of signalWorkflow gets when the guard refuses the call: return
Ignored(eid) == [op |-> "signalWorkflow", id |-> eid, result |-> "returned"]

\* signalWorkflow(workflowId, event, data) on an id without a record or on an
\* execution the guard refuses
SignalWorkflowIgnored(eid, event, userId) ==
  /\ <<event, userId>> \in SignalInputs
  /\ IF db[eid] = NoRecord THEN TRUE ELSE ~SignalGuard(db[eid])
  /\ rejected' = Ignored(eid)
  /\ UNCHANGED <<workflowDefinitions, workflowState, db, runs, signalCount, directCount, restartCount, requests,
               sentEmailsPerWorkflow, emails, tokenCount, verificationTokens>>

\* executeWorkflow(execution, initialInput) called again by a holder of the
\* execution object of a finished call, with the same arguments, while no run
\* is in flight
ExecuteWorkflowAgain(i) ==
  /\ directCount < MaxDirectCalls
  /\ \A j \in 1..Len(runs) : runs[j].pc = "done"
  /\ directCount' = directCount + 1
  /\ LET p == runs[i]
     IN Commit(Len(runs) + 1,
               ExecuteFrom(Ctx(NewRun(p.eid, "execute", workflowDefinitions[p.exec.workflowId], p.exec,
                                      p.initialInput, p.exec.status, NoValue, i))))
  /\ UNCHANGED <<workflowDefinitions, signalCount, rejected, restartCount, requests>>

Next ==
  \/ \E w \in WorkflowInputs : RegisterWorkflow(w)
  \/ \E e \in ExecIds, w \in WorkflowIds, v \in InitialInputs : StartWorkflow(e, w, v)
  \/ \E i \in 1..Len(runs), o \in Outcomes : HandlerReturns(i, o)
  \/ \E i \in 1..Len(runs) : BackoffElapses(i)
  \/ \E e \in ExecIds, ev \in {"verified", "other"}, u \in UserIds : SignalWorkflow(e, ev, u)

Spec == Init /\ [][Next]_vars

\* The server process stops and starts again: the runtime object is built
\* anew (signal state empty, no run in flight), the module-level Map of the
\* send step is empty, the startup code registers the workflow definitions
\* again, and the SQLite file keeps the rows.
Restart ==
  /\ restartCount < MaxRestarts
  /\ restartCount' = restartCount + 1
  /\ workflowState' = [e \in ExecIds |-> EmptyState]
  /\ sentEmailsPerWorkflow' = [e \in ExecIds |-> {}]
  /\ runs' = [i \in 1..Len(runs) |->
                IF runs[i].pc = "done" THEN runs[i]
                ELSE [runs[i] EXCEPT !.pc = "done", !.result = "lost"]]
  /\ UNCHANGED <<workflowDefinitions, db, signalCount, directCount, rejected, emails, tokenCount,
               verificationTokens, requests>>

\* the runtime in a server that may be restarted
NextRestart ==
  \/ Next
  \/ Restart

SpecRestart == Init /\ [][NextRestart]_vars

\* the runtime with the signup workflow registered
NextEmail ==
  \/ \E w \in EmailWorkflowInputs : RegisterWorkflow(w)
  \/ \E e \in ExecIds, w \in WorkflowIds, v \in InitialInputs : StartWorkflow(e, w, v)
  \/ \E i \in 1..Len(runs), o \in Outcomes : HandlerReturns(i, o)
  \/ \E i \in 1..Len(runs) : BackoffElapses(i)
  \/ \E e \in ExecIds, ev \in {"verified", "other"}, u \in UserIds : SignalWorkflow(e, ev, u)

SpecEmail == Init /\ [][NextEmail]_vars

\* the runtime with registerWorkflow called at any time
NextRegister ==
  \/ Next
  \/ \E w \in LateWorkflowInputs : RegisterWorkflowLate(w)

SpecRegister == Init /\ [][NextRegister]_vars

\* the runtime with executeWorkflow also called directly
NextExec ==
  \/ Next
  \/ \E i \in 1..Len(runs) : ExecuteWorkflowAgain(i)

SpecExec == Init /\ [][NextExec]_vars

\* handlers settle and backoff timers fire
Fairness ==
  /\ WF_vars(\E i \in 1..Len(runs), o \in Outcomes : HandlerReturns(i, o))
  /\ WF_vars(\E i \in 1..Len(runs) : BackoffElapses(i))

SpecFair == Spec /\ Fairness

\* the runtime with the calls it refuses or ignores
NextApi ==
  \/ Next
  \/ \E w \in StartIds : StartWorkflowNotFound(w)
  \/ \E e \in ExecIds, ev \in {"verified", "other"}, u \in UserIds : SignalWorkflowIgnored(e, ev, u)

SpecApi == Init /\ [][NextApi]_vars

(***************************************************************************)
(* GET /api/verify?token=...: verifyHandler of api/verify.api.ts.          *)
(* Tokens are followed within their 24 hours of validity.                   *)
(***************************************************************************)
\* the signup workflow with an awaited step behind the wait: createUser, the
\* send step, the wait, finalizeUser
VerifyWorkflowInputs ==
  { [id |-> "wf", steps |-> << StepDef("create-user", "task", RetryPolicy(1)), sendVerificationEmailStep,
                              waitForVerificationStep,
                              StepDef("finalize-user", "task", RetryPolicy(1)) >>] }

\* database.getUserIdByToken(token): the user_id of the row, undefined without one
GetUserIdByToken(token) ==
  IF \E row \in verificationTokens : row.token = token
  THEN (CHOOSE row \in verificationTokens : row.token = token).userId
  ELSE Undefined

\* database.getWorkflowByUserId(userId): the workflow createUser linked the
\* user to with database.setUserWorkflow(user.id, context.workflowId)
GetWorkflowByUserId(userId) ==
  LET linked == {e \in ExecIds :
                   \E i \in 1..Len(runs) :
                     /\ runs[i].eid = e
                     /\ \E n \in 1..Len(runs[i].calls) :
                          LET call == runs[i].calls[n]
                          IN /\ runs[i].def.steps[call.step].id = "create-user"
                             /\ call.outcome = "ok"
                             /\ call.input.userId = userId}
  IN IF linked = {} THEN Undefined ELSE CHOOSE e \in linked : TRUE

\* database.deleteVerificationToken(token)
DeleteVerificationToken(table, token) == {row \in table : row.token # token}

\* a request of verifyHandler: its token, whether it reached the call of
\* signalWorkflow, whether that call passed the guard, the run the call is
\* awaiting (0: none) and the response
Request(token, called, delivered, run, status) ==
  [token |-> token, called |-> called, delivered |-> delivered, run |-> run, status |-> status]

\* await motia.signalWorkflow(...) of request q has settled
Settled(q) == requests[q].run = 0 \/ runs[requests[q].run].pc = "done"

\* a request arrives: the look-ups, 404 when one of them finds nothing, else
\* the call of signalWorkflow; when the call returns without awaiting a run
\* the token is deleted and the response is 200 at once.  The continuation of
\* a settled await runs before the next request is taken.
VerifyRequest(token) ==
  /\ Len(requests) < MaxVerifyRequests
  /\ \A q \in 1..Len(requests) : requests[q].status = "awaiting" => ~Settled(q)
  /\ LET userId == GetUserIdByToken(token)
         workflowId == IF userId = Undefined THEN Undefined ELSE GetWorkflowByUserId(userId)
     IN IF workflowId = Undefined
        THEN /\ requests' = Append(requests, Request(token, FALSE, FALSE, 0, "404"))
             /\ UNCHANGED <<workflowDefinitions, workflowState, db, runs, signalCount, directCount,
                            rejected, restartCount, sentEmailsPerWorkflow, emails, tokenCount,
                            verificationTokens>>
        ELSE IF db[workflowId] = NoRecord
        THEN /\ requests' = Append(requests, Request(token, FALSE, FALSE, 0, "404"))
             /\ UNCHANGED <<workflowDefinitions, workflowState, db, runs, signalCount, directCount,
                            rejected, restartCount, sentEmailsPerWorkflow, emails, tokenCount,
                            verificationTokens>>
        ELSE IF ~SignalGuard(db[workflowId])
        THEN /\ requests' = Append(requests, Request(token, TRUE, FALSE, 0, "200"))
             /\ verificationTokens' = DeleteVerificationToken(verificationTokens, token)
             /\ UNCHANGED <<workflowDefinitions, workflowState, db, runs, signalCount, directCount,
                            rejected, restartCount, sentEmailsPerWorkflow, emails, tokenCount>>
        ELSE /\ SignalWorkflowCall(workflowId, "verified", userId)
             /\ requests' = Append(requests, Request(token, TRUE, TRUE,
                                                  IF Len(runs') > Len(runs) THEN Len(runs') ELSE 0,
                                                  "awaiting"))

\* the await of signalWorkflow settles: the token is deleted and the response
\* is 200, or the catch block answers 500
VerifyResponds(q) ==
  /\ requests[q].status = "awaiting"
  /\ Settled(q)
  /\ IF requests[q].run # 0 /\ runs[requests[q].run].result = "threw"
     THEN /\ requests' = [requests EXCEPT ![q].status = "500"]
          /\ UNCHANGED verificationTokens
     ELSE /\ requests' = [requests EXCEPT ![q].status = "200"]
          /\ verificationTokens' = DeleteVerificationToken(verificationTokens, requests[q].token)
  /\ UNCHANGED <<workflowDefinitions, workflowState, db, runs, signalCount, directCount,
                 rejected, restartCount, sentEmailsPerWorkflow, emails, tokenCount>>

\* the tokens a request may carry: those generated so far and one that is unknown
TokenInputs == 1..(tokenCount + 1)

\* the server with the signup workflow and the verify route
NextVerify ==
  \/ \E w \in VerifyWorkflowInputs : RegisterWorkflow(w)
  \/ \E e \in ExecIds, w \in WorkflowIds, v \in InitialInputs : StartWorkflow(e, w, v)
  \/ \E i \in 1..Len(runs), o \in Outcomes : HandlerReturns(i, o)
  \/ \E i \in 1..Len(runs) : BackoffElapses(i)
  \/ \E t \in TokenInputs : VerifyRequest(t)
  \/ \E q \in 1..Len(requests) : VerifyResponds(q)

SpecVerify == Init /\ [][NextVerify]_vars

(***************************************************************************)
(* Vocabulary of the properties.                                           *)
(***************************************************************************)
Runs == 1..Len(runs)

MaxRuns == MaxSignals + 1

Active(i) == runs[i].pc \in {"handler", "sleep"}

\* the handler invocations of run r on step s
CallsOn(r, s) == {j \in 1..Len(r.calls) : r.calls[j].step = s}

\* run i has just rejected with an ordinary error
JustThrew(i) == runs'[i].result = "threw" /\ (i > Len(runs) \/ runs[i].result # "threw")

\* run i has just stopped on a pause request
JustPaused(i) == runs'[i].result = "paused" /\ (i > Len(runs) \/ runs[i].result # "paused")

\* run i has just finished the step loop
JustCompleted(i) == runs'[i].result = "completed" /\ (i > Len(runs) \/ runs[i].result # "completed")

\* number of steps with status running or retrying
InProgress(steps) == Cardinality({k \in 1..Len(steps) : steps[k].status \in {"running", "retrying"}})

\* number of leading completed steps
LeadingCompleted(steps) ==
  Cardinality({n \in 1..Len(steps) : \A k \in 1..n : steps[k].status = "completed"})

\* the initial input given to startWorkflow for execution e
StartInput(e) == runs[CHOOSE i \in Runs : runs[i].eid = e /\ runs[i].origin = "start"].initialInput

(***************************************************************************)
(* C1.  Whenever a step exhausts its retry attempts with ordinary failures *)
(* during an executeWorkflow run, the persisted status of the execution    *)
(* becomes failed and the run invokes no handler of a later step, on the   *)
(* start path and on the resume path alike.                                *)
(***************************************************************************)
C1_ExhaustionPersistsFailed ==
  [][\A i \in 1..Len(runs') :
       JustThrew(i) =>
         /\ db'[runs'[i].eid].status = "failed"
         /\ runs'[i].pc = "done"
         /\ \A j \in 1..Len(runs'[i].calls) : runs'[i].calls[j].step <= runs'[i].idx]_vars

(***************************************************************************)
(* C2.  A step whose handler raises an ordinary failure on every           *)
(* invocation ends with status failed after exactly maxAttempts handler    *)
(* invocations in that run, with attempts = maxAttempts; no step is ever   *)
(* invoked more than maxAttempts times in a run.                           *)
(***************************************************************************)
C2_RetryBound ==
  \A i \in Runs :
    LET r == runs[i]
    IN \A s \in 1..Len(r.def.steps) :
         LET cs == CallsOn(r, s)
             max == MaxAttemptsOf(r.def.steps[s])
         IN /\ Cardinality(cs) <= max
            /\ ( /\ cs # {}
                 /\ \A j \in cs : r.calls[j].outcome = "fail"
                 /\ ~(r.pc = "sleep" /\ r.idx = s) )
               => /\ r.exec.steps[s].status = "failed"
                  /\ r.exec.steps[s].attempts = max
                  /\ Cardinality(cs) = max

C2_Witness ==
  \E i \in Runs :
    /\ runs[i].result = "threw"
    /\ MaxAttemptsOf(runs[i].def.steps[runs[i].idx]) = DefaultMaxAttempts
    /\ Cardinality(CallsOn(runs[i], runs[i].idx)) = DefaultMaxAttempts

(***************************************************************************)
(* C3.  When a wait-style step is invoked and asks for a pause (the wait   *)
(* step of the repository: no matching signal is present), the             *)
(* run stops: the persisted execution status is paused, the persisted      *)
(* status of that step is running, currentStep is that step and the run    *)
(* has invoked no handler of a later step.                                 *)
(***************************************************************************)
C3_PauseStopsRun ==
  [][\A i \in 1..Len(runs') :
       JustPaused(i) =>
         LET r == runs'[i]
             row == db'[r.eid]
         IN /\ r.def.steps[r.idx].handler \in {"wait", "gate"}
            /\ r.calls[Len(r.calls)] = [step |-> r.idx, attempt |-> r.attempt,
                                        input |-> r.input, outcome |-> "pause"]
            /\ row.status = "paused"
            /\ row.steps[r.idx].status = "running"
            /\ row.currentStep = r.def.steps[r.idx].id
            /\ r.pc = "done"
            /\ \A j \in 1..Len(r.calls) : r.calls[j].step <= r.idx]_vars

C3_Witness ==
  \E i \in Runs :
    /\ runs[i].result = "paused"
    /\ runs[i].idx > 1
    /\ db[runs[i].eid].status = "paused"
    /\ db[runs[i].eid].steps[runs[i].idx].status = "running"

(***************************************************************************)
(* C4.  For an execution paused at a wait step, a signalWorkflow call with *)
(* the signal name the step waits for and the userId of the step's input   *)
(* completes the wait step and runs the following steps in order; unless   *)
(* one of them fails terminally the persisted status eventually is         *)
(* completed.                                                              *)
(***************************************************************************)
\* run i was started by a matching signal on an execution paused at a wait step
MatchingResume(i) ==
  /\ i \in Runs
  /\ runs[i].origin = "signal"
  /\ runs[i].loadedStatus = "paused"
  /\ runs[i].signal.event = "verified"
  /\ LET r == runs[i]
         w == LeadingCompleted(r.entry) + 1
     IN /\ w <= Len(r.def.steps)
        /\ r.def.steps[w].handler = "wait"
        /\ r.signal.userId = (IF w > 1 THEN r.entry[w - 1].output ELSE EmptyObject).userId

C4_ResumeSafety ==
  \A i \in Runs :
    MatchingResume(i) =>
      LET r == runs[i]
          w == LeadingCompleted(r.entry) + 1
      IN /\ r.exec.steps[w].status = "completed"
         /\ r.calls[1].step = w /\ r.calls[1].outcome = "ok"
         /\ \A j \in 1..(Len(r.calls) - 1) :
              r.calls[j + 1].step \in {r.calls[j].step, r.calls[j].step + 1}
         /\ r.result = "completed" => \A k \in 1..Len(r.exec.steps) : r.exec.steps[k].status = "completed"
         /\ r.result \in {"none", "completed", "threw"}

\* when such a run finishes the loop, the store holds status completed
C4_CompletionPersisted ==
  \A i \in 1..Len(runs') :
    (MatchingResume(i)' /\ JustCompleted(i)) => db'[runs'[i].eid].status = "completed"

C5_SingleResumeRun ==
  \A i, j \in Runs :
    ( /\ i # j
      /\ runs[i].eid = runs[j].eid
      /\ runs[i].origin = "signal" /\ runs[j].origin = "signal"
      /\ "paused" \in {runs[i].loadedStatus, runs[j].loadedStatus} )
    => ~(Active(i) /\ Active(j))

(***************************************************************************)
(* C6.  Within one execution steps run strictly sequentially: at most one  *)
(* handler invocation of an execution id is in flight at any time.         *)
(***************************************************************************)
C6_OneHandlerInFlight ==
  \A e \in ExecIds :
    Cardinality({i \in Runs : runs[i].eid = e /\ runs[i].pc = "handler"}) <= 1

(***************************************************************************)
(* C7.  In every reachable state, every execution record, in memory or     *)
(* persisted, has at most one step with status running or retrying.        *)
(***************************************************************************)
C7_OneStepInProgress ==
  /\ \A i \in Runs : InProgress(runs[i].exec.steps) <= 1
  /\ \A e \in ExecIds : db[e] # NoRecord => InProgress(db[e].steps) <= 1

C7_Witness ==
  \E i \in Runs :
    /\ runs[i].origin = "signal"
    /\ runs[i].pc = "handler"
    /\ runs[i].idx > 1
    /\ runs[i].exec.steps[runs[i].idx].status = "retrying"
    /\ \E j \in Runs : j # i /\ Active(j)

(***************************************************************************)
(* C8.  executeWorkflow on an execution whose first N steps are completed  *)
(* invokes no handler of those steps and leaves their records unchanged;   *)
(* the first handler it invokes is that of step N+1, with step N's stored  *)
(* output as input.  Calling it a second time after the first call         *)
(* finished, with the handlers behaving as in the first call, gives the    *)
(* same final status and the same status, attempts, output and error of    *)
(* every step; the logs of a step the second call runs again are extended. *)
(***************************************************************************)
C8_SkipsCompleted(r) ==
  LET n == LeadingCompleted(r.entry)
  IN /\ \A s \in 1..n : r.exec.steps[s] = r.entry[s] /\ CallsOn(r, s) = {}
     /\ Len(r.calls) > 0 =>
          /\ r.calls[1].step = n + 1
          /\ n >= 1 => r.calls[1].input = r.entry[n].output

\* every handler invocation of r2 had the outcome the same invocation had in r1
SameBehaviour(r2, r1) ==
  \A a \in 1..Len(r2.calls), b \in 1..Len(r1.calls) :
    ( /\ r2.calls[a].step = r1.calls[b].step
      /\ r2.calls[a].attempt = r1.calls[b].attempt
      /\ r2.calls[a].input = r1.calls[b].input )
    => r2.calls[a].outcome = r1.calls[b].outcome

\* run j is a finished second call on the execution object of run runs[j].prev
SecondCall(j) ==
  /\ runs[j].origin = "execute"
  /\ runs[j].pc = "done"
  /\ SameBehaviour(runs[j], runs[runs[j].prev])

IsPrefix(s, t) == Len(s) <= Len(t) /\ SubSeq(t, 1, Len(s)) = s

C8_IdempotentReentry ==
  /\ \A i \in Runs : C8_SkipsCompleted(runs[i])
  /\ \A j \in Runs :
       SecondCall(j) =>
         LET second == runs[j].exec
             first == runs[runs[j].prev].exec
         IN /\ second.status = first.status
            /\ \A k \in 1..Len(first.steps) :
                 /\ second.steps[k].status = first.steps[k].status
                 /\ second.steps[k].attempts = first.steps[k].attempts
                 /\ second.steps[k].output = first.steps[k].output
                 /\ second.steps[k].error = first.steps[k].error
                 /\ IsPrefix(first.steps[k].logs, second.steps[k].logs)

\* the claim as stated: the second call leaves the steps, logs included, as
\* the first call left them
C8_AsStated ==
  /\ \A i \in Runs : C8_SkipsCompleted(runs[i])
  /\ \A j \in Runs :
       (SecondCall(j) /\ LeadingCompleted(runs[j].entry) >= 1) =>
         /\ runs[j].exec.status = runs[runs[j].prev].exec.status
         /\ runs[j].exec.steps = runs[runs[j].prev].exec.steps

C8_Witness ==
  \E j \in Runs :
    /\ SecondCall(j)
    /\ LeadingCompleted(runs[j].entry) >= 1
    /\ Len(runs[j].calls) > 0
    /\ runs[j].calls[1].input = runs[j].entry[LeadingCompleted(runs[j].entry)].output
    /\ \E i \in Runs : runs[i].origin = "signal" /\ LeadingCompleted(runs[i].entry) >= 1
                       /\ Len(runs[i].calls) > 0

(***************************************************************************)
(* C9.  Output threading: in every run the input passed to the handler of  *)
(* step i+1 is the stored output of step i, and the input of the first     *)
(* step is the initial input given to startWorkflow.                       *)
(***************************************************************************)
C9_OutputThreading ==
  \A i \in Runs :
    \A j \in 1..Len(runs[i].calls) :
      LET call == runs[i].calls[j]
      IN IF call.step = 1
         THEN call.input = StartInput(runs[i].eid)
         ELSE call.input = runs[i].exec.steps[call.step - 1].output

(***************************************************************************)
(* C10.  Once the status of an execution is completed or failed, a later   *)
(* executeWorkflow or signalWorkflow call on it invokes no handler and     *)
(* changes neither its status nor any field of its steps.                  *)
(***************************************************************************)
C10_TerminalImmutable ==
  \A i \in Runs :
    runs[i].loadedStatus \in {"completed", "failed"} =>
      /\ runs[i].calls = <<>>
      /\ runs[i].exec.status = runs[i].loadedStatus
      /\ runs[i].exec.steps = runs[i].entry

\* run i executed code in this step
Stepped(i) == i > Len(runs) \/ runs'[i] # runs[i]

(***************************************************************************)
(* C11.  The persisted status of an execution never changes once it is     *)
(* completed or failed, whatever runs are still in flight.                 *)
(***************************************************************************)
C11_TerminalStatusStable ==
  [][\A e \in ExecIds :
       (db[e] # NoRecord /\ db[e].status \in {"completed", "failed"})
         => db'[e].status = db[e].status]_vars

(***************************************************************************)
(* C12.  A persisted status of paused changes only in a step of a run that *)
(* a signalWorkflow call for that execution started; without such a call   *)
(* the record stays paused.                                                *)
(***************************************************************************)
C12_PausedLeavesBySignal ==
  [][\A e \in ExecIds :
       (db[e] # NoRecord /\ db[e].status = "paused" /\ db'[e].status # "paused")
         => \E i \in 1..Len(runs') :
              /\ Stepped(i)
              /\ runs'[i].eid = e
              /\ runs'[i].origin = "signal"]_vars

\* the handler invoked by run i asked for a pause in this step
PauseRequested(i) ==
  /\ Stepped(i)
  /\ Len(runs'[i].calls) > 0
  /\ runs'[i].calls[Len(runs'[i].calls)].outcome = "pause"
  /\ i <= Len(runs) => runs[i].calls # runs'[i].calls

(***************************************************************************)
(* C13.  A pause request is never turned into a failure, on the start path *)
(* and on the resume path alike: after it the step is running, not failed, *)
(* and carries no error message, and the execution is paused, not failed,  *)
(* in the run and in the store.                                            *)
(***************************************************************************)
C13_PauseIsNotFailure ==
  [][\A i \in 1..Len(runs') :
       PauseRequested(i) =>
         LET r == runs'[i]
             k == r.idx
             row == db'[r.eid]
         IN /\ r.result = "paused"
            /\ r.exec.status = "paused"
            /\ r.exec.steps[k].status = "running"
            /\ r.exec.steps[k].error = Undefined
            /\ row.status = "paused"
            /\ row.steps[k].status = "running"
            /\ row.steps[k].error = Undefined]_vars

\* a start run paused, and a resume run paused at its second attempt, after
\* an ordinary failure had left an error message on the step
C13_Witness ==
  /\ \E i \in Runs : runs[i].origin = "start" /\ runs[i].result = "paused"
  /\ \E i \in Runs :
       /\ runs[i].origin = "signal"
       /\ runs[i].result = "paused"
       /\ runs[i].attempt = 2
       /\ runs[i].exec.steps[runs[i].idx].error = Undefined
       /\ db[runs[i].eid].status = "paused"

(***************************************************************************)
(* C14.  A pause request ends the retry loop at once, whatever the attempt *)
(* number and maxAttempts: the invocation that asked for the pause is the  *)
(* last one of its run, and the run is over, with no backoff sleep.        *)
(***************************************************************************)
C14_PauseEndsRetryLoop ==
  \A i \in Runs :
    \A j \in 1..Len(runs[i].calls) :
      runs[i].calls[j].outcome = "pause" =>
        /\ j = Len(runs[i].calls)
        /\ runs[i].pc = "done"
        /\ runs[i].exec.steps[runs[i].idx].attempts = runs[i].calls[j].attempt

\* a pause at a first attempt with attempts left, and a pause at a second attempt
C14_Witness ==
  /\ \E i \in Runs :
       /\ runs[i].result = "paused"
       /\ runs[i].attempt = 1
       /\ runs[i].attempt < MaxAttemptsOf(runs[i].def.steps[runs[i].idx])
  /\ \E i \in Runs :
       /\ runs[i].result = "paused"
       /\ runs[i].attempt = 2

(***************************************************************************)
(* C15.  startWorkflow with an unregistered workflow id fails with a       *)
(* not-found error, creates no execution record in the store and invokes   *)
(* no handler; an execution record is only ever created for a registered   *)
(* workflow.                                                               *)
(***************************************************************************)
C15_UnknownWorkflowRefused ==
  [][/\ (rejected' # rejected /\ rejected'.op = "startWorkflow") =>
          /\ GetDefinition(rejected'.id) = NoDefinition
          /\ rejected'.result = "threw: not found"
          /\ UNCHANGED <<db, runs, workflowState>>
     /\ \A e \in ExecIds :
          (db[e] = NoRecord /\ db'[e] # NoRecord) => GetDefinition(db'[e].workflowId) # NoDefinition]_vars

C15_Witness ==
  /\ rejected.op = "startWorkflow"
  /\ rejected.id = "nonexistent"
  /\ rejected.result = "threw: not found"
  /\ \A e \in ExecIds : db[e] = NoRecord
  /\ workflowDefinitions["wf"] # NoDefinition

\* the keys signalWorkflow writes
SignalKeys == {SignalKey(ev) : ev \in {"verified", "other"}}

\* execution e does not exist or is completed or failed
AbsentOrTerminal(e) == IF db[e] = NoRecord THEN TRUE ELSE db[e].status \in {"completed", "failed"}

(***************************************************************************)
(* C16.  signalWorkflow on an execution id that does not exist, or on an   *)
(* execution whose status is completed or failed, is a no-op: it raises no *)
(* error, writes nothing to the signal state, writes nothing to the store  *)
(* and invokes no handler.                                                 *)
(***************************************************************************)
C16_SignalIgnored ==
  [][/\ \A e \in ExecIds :
          AbsentOrTerminal(e) =>
            /\ \A k \in SignalKeys : workflowState'[e][k] = workflowState[e][k]
            /\ \A i \in 1..Len(runs') : (i > Len(runs) /\ runs'[i].eid = e) => runs'[i].origin # "signal"
     /\ (rejected' # rejected /\ rejected'.op = "signalWorkflow") =>
          /\ AbsentOrTerminal(rejected'.id)
          /\ rejected'.result = "returned"
          /\ UNCHANGED <<db, runs, workflowState, signalCount>>]_vars

\* the call was ignored for an execution that had completed after a resume
C16_Witness ==
  /\ rejected.op = "signalWorkflow"
  /\ db[rejected.id] # NoRecord
  /\ db[rejected.id].status = "completed"
  /\ signalCount > 0

(***************************************************************************)
(* C17.  signalWorkflow on a running or paused execution returns without   *)
(* raising an error even when a step executed after the resumption fails   *)
(* terminally; the failure shows as execution status failed.               *)
(***************************************************************************)
C17_SignalReturnsNormally ==
  \A i \in Runs :
    ( /\ runs[i].origin = "signal"
      /\ runs[i].pc = "done"
      /\ \E k \in 1..Len(runs[i].exec.steps) : runs[i].exec.steps[k].status = "failed" )
    => /\ runs[i].result # "threw"
       /\ runs[i].exec.status = "failed"

(***************************************************************************)
(* C18.  Registering a workflow under an id that is already registered     *)
(* with a different definition is refused and leaves the earlier           *)
(* definition in place.                                                    *)
(***************************************************************************)
C18_DuplicateRegistrationRefused ==
  [][\A w \in WorkflowIds :
       workflowDefinitions[w] # NoDefinition => workflowDefinitions'[w] = workflowDefinitions[w]]_vars

\* every step of steps has made at most the attempts its definition allows
AttemptsWithin(steps, workflowDef) ==
  \A k \in 1..Len(steps) : steps[k].attempts <= MaxAttemptsOf(workflowDef.steps[k])

(***************************************************************************)
(* C19.  In every reachable state every StepExecution, in a run or in the  *)
(* store, satisfies attempts <= maxAttempts of its step definition (3 when *)
(* no retry policy is given), also after a resume reset the step and ran   *)
(* it again.                                                               *)
(***************************************************************************)
C19_AttemptsBounded ==
  /\ \A i \in Runs : AttemptsWithin(runs[i].exec.steps, runs[i].def)
  /\ \A e \in ExecIds :
       db[e] # NoRecord => AttemptsWithin(db[e].steps, workflowDefinitions[db[e].workflowId])

\* a resume found the step at its last attempt, reset it and ran it again up
\* to the last attempt
C19_Witness ==
  \E i \in Runs :
    LET r == runs[i]
    IN /\ r.origin = "signal"
       /\ r.idx <= Len(r.def.steps)
       /\ r.entry[r.idx].status = "pending"
       /\ r.entry[r.idx].attempts = MaxAttemptsOf(r.def.steps[r.idx])
       /\ r.exec.steps[r.idx].attempts = MaxAttemptsOf(r.def.steps[r.idx])
       /\ Cardinality(CallsOn(r, r.idx)) = MaxAttemptsOf(r.def.steps[r.idx])
       /\ MaxAttemptsOf(r.def.steps[r.idx]) > 1

\* every step of steps that has an output is completed
OutputsOfCompleted(steps) ==
  \A k \in 1..Len(steps) : steps[k].output # NoValue => steps[k].status = "completed"

(***************************************************************************)
(* C20.  In every reachable state a StepExecution, in a run or in the      *)
(* store, has an output only if its status is completed; the reset to      *)
(* pending done by signalWorkflow never yields a pending step with an      *)
(* output.                                                                 *)
(***************************************************************************)
C20_OutputOnlyWhenCompleted ==
  /\ \A i \in Runs : OutputsOfCompleted(runs[i].exec.steps) /\ OutputsOfCompleted(runs[i].entry)
  /\ \A e \in ExecIds : db[e] # NoRecord => OutputsOfCompleted(db[e].steps)

\* signalWorkflow reset a step that had run, next to a step that has an output
C20_Witness ==
  \E i \in Runs :
    /\ runs[i].origin = "signal"
    /\ \E k \in 1..Len(runs[i].entry) :
         /\ runs[i].entry[k].status = "pending"
         /\ runs[i].entry[k].attempts > 0
         /\ runs[i].entry[k].output = NoValue
    /\ \E j \in 1..Len(runs[i].entry) : runs[i].entry[j].output # NoValue

\* steps has the length and the step ids, in order, of workflowDef
Mirrors(steps, workflowDef) ==
  /\ workflowDef # NoDefinition
  /\ Len(steps) = Len(workflowDef.steps)
  /\ \A k \in 1..Len(steps) : steps[k].stepId = workflowDef.steps[k].id

(***************************************************************************)
(* C21.  In every reachable state the steps of an execution, in a run or   *)
(* in the store, have the length and the step ids, in order, of the        *)
(* workflow definition currently registered under its workflowId.          *)
(***************************************************************************)
C21_StepsMirrorDefinition ==
  /\ \A i \in Runs : Mirrors(runs[i].exec.steps, GetDefinition(runs[i].exec.workflowId))
  /\ \A e \in ExecIds : db[e] # NoRecord => Mirrors(db[e].steps, GetDefinition(db[e].workflowId))

\* steps as startWorkflow creates them: pending, no attempt, no output
Fresh(steps) ==
  \A k \in 1..Len(steps) :
    steps[k].status = "pending" /\ steps[k].attempts = 0 /\ steps[k].output = NoValue

\* the step in which startWorkflow is called for execution r.eid
C22_StartStep ==
  \A i \in 1..Len(runs') :
    (i > Len(runs) /\ runs'[i].origin = "start") =>
      LET r == runs'[i]
      IN /\ db[r.eid] = NoRecord
         /\ Fresh(r.entry)
         /\ db'[r.eid] # NoRecord
         /\ r.result # "threw"
         /\ r.pc = "handler" =>
              /\ db'[r.eid].status = "running"
              /\ Fresh(db'[r.eid].steps)
              /\ r.exec.status = "running"

(***************************************************************************)
(* C22.  startWorkflow persists a fresh record, status running and every   *)
(* step pending with attempts 0 and no output, before a handler is         *)
(* invoked, and hands the execution to its caller while the first handler  *)
(* is still awaited; no step outcome is raised to the caller: a failure    *)
(* of the run ends in the execution marked failed.                         *)
(***************************************************************************)
C22_StartPersistsFresh ==
  /\ [][C22_StartStep]_vars
  /\ [](\A i \in Runs :
          (runs[i].origin = "start" /\ runs[i].result = "threw") => runs[i].exec.status = "failed")

C22_Witness ==
  \E i \in Runs :
    /\ runs[i].origin = "start"
    /\ runs[i].pc = "handler"
    /\ runs[i].calls # <<>>
    /\ runs[i].exec.steps[1].status = "running"
    /\ Len(runs) = 1
    /\ db[runs[i].eid].status = "running"
    /\ Fresh(db[runs[i].eid].steps)

(***************************************************************************)
(* C23.  The execution record is persisted after every step transition:    *)
(* while a handler is awaited or a backoff sleep is taken, the store holds *)
(* the status and the attempts of every step as the run has them (stated   *)
(* for an execution with a single run).                                    *)
(***************************************************************************)
C23_PersistedAfterTransition ==
  \A i \in Runs :
    (Len(runs) = 1 /\ Active(i)) =>
      \A k \in 1..Len(runs[i].exec.steps) :
        /\ db[runs[i].eid].steps[k].status = runs[i].exec.steps[k].status
        /\ db[runs[i].eid].steps[k].attempts = runs[i].exec.steps[k].attempts

(***************************************************************************)
(* C24.  Whenever the persisted status of an execution is failed, exactly  *)
(* one step has status failed, it is the step named by currentStep, its    *)
(* error is the message of its last failed attempt, every earlier step is  *)
(* completed and every later step is pending.                              *)
(***************************************************************************)
C24_FailedRecordExplains ==
  \A e \in ExecIds :
    (db[e] # NoRecord /\ db[e].status = "failed") =>
      \E k \in 1..Len(db[e].steps) :
        /\ db[e].steps[k].status = "failed"
        /\ db[e].currentStep = db[e].steps[k].stepId
        /\ db[e].steps[k].error = TaskMessage(db[e].steps[k].attempts)
        /\ \A j \in 1..(k - 1) : db[e].steps[j].status = "completed"
        /\ \A j \in (k + 1)..Len(db[e].steps) : db[e].steps[j].status = "pending"

\* the handler invocations run i makes in this step
NewCalls(i) ==
  {j \in 1..Len(runs'[i].calls) : i > Len(runs) \/ j > Len(runs[i].calls)}

\* the 'verified' signal is in the signal state of execution e for user u
VerifiedFor(e, u) ==
  \E v \in UserIds : v = u /\ workflowState'[e]["signal:verified"] = [userId |-> v]

C28_WaitCall ==
  \A i \in 1..Len(runs') : \A j \in NewCalls(i) :
    LET r == runs'[i]
        call == r.calls[j]
    IN r.def.steps[call.step].handler = "wait" =>
         /\ call.outcome \in {"ok", "pause"}
         /\ call.outcome = "ok" <=> VerifiedFor(r.eid, call.input.userId)
         /\ call.outcome = "pause" =>
              /\ j = Len(r.calls)
              /\ r.pc = "done" /\ r.result = "paused"
              /\ db'[r.eid].status = "paused"
              /\ db'[r.eid].currentStep = r.def.steps[call.step].id
              /\ FindStep(db'[r.eid].steps, db'[r.eid].currentStep) # 0
              /\ db'[r.eid].steps[FindStep(db'[r.eid].steps, db'[r.eid].currentStep)].status = "running"

Successes(e, s) ==
  UNION { { <<i, j>> : j \in {n \in 1..Len(runs[i].calls) :
                                /\ runs[i].eid = e
                                /\ runs[i].calls[n].step = s
                                /\ runs[i].calls[n].outcome = "ok"} } : i \in Runs }

(***************************************************************************)
(* C27.  Each step is executed exactly once per execution: over all runs   *)
(* that startWorkflow and signalWorkflow make for an execution, no step's  *)
(* handler returns success more than once, and when the execution is       *)
(* stored as completed every step's handler has returned success exactly   *)
(* once.                                                                   *)
(***************************************************************************)
C27_ExactlyOnce ==
  \A e \in ExecIds :
    db[e] # NoRecord =>
      \A s \in 1..Len(db[e].steps) :
        /\ Cardinality(Successes(e, s)) <= 1
        /\ db[e].status = "completed" => Cardinality(Successes(e, s)) = 1

(***************************************************************************)
(* C30.  After save(e), load(e.id) returns a record with the workflowId,   *)
(* status, currentStep and steps of e at the time of the save: when the    *)
(* only run of an execution has ended with a save (paused or completed),   *)
(* the record the store returns equals the execution the run saved.        *)
(***************************************************************************)
C30_LoadReturnsSaved ==
  \A i \in Runs :
    (Len(runs) = 1 /\ runs[i].pc = "done" /\ runs[i].result \in {"paused", "completed"}) =>
      /\ db[runs[i].eid] # NoRecord
      /\ db[runs[i].eid].workflowId = runs[i].exec.workflowId
      /\ db[runs[i].eid].status = runs[i].exec.status
      /\ db[runs[i].eid].currentStep = runs[i].exec.currentStep
      /\ db[runs[i].eid].steps = runs[i].exec.steps

\* the position of the step the stored execution e waits at, when it is
\* stored as paused with its first not completed step a wait step; else 0
WaitPosition(e) ==
  IF db[e] = NoRecord THEN 0
  ELSE LET w == LeadingCompleted(db[e].steps) + 1
           workflowDef == GetDefinition(db[e].workflowId)
       IN IF /\ db[e].status = "paused"
             /\ workflowDef # NoDefinition
             /\ w <= Len(workflowDef.steps)
             /\ w <= Len(db[e].steps)
          THEN (IF workflowDef.steps[w].handler = "wait" THEN w ELSE 0)
          ELSE 0

\* the key the wait step at position w of the stored execution e waits for:
\* the userId of the output of the step before it
WaitKey(e, w) ==
  IF w > 1
  THEN (IF db[e].steps[w - 1].output = NoValue THEN Undefined ELSE db[e].steps[w - 1].output.userId)
  ELSE Undefined

\* a signalWorkflow call made after a restart on an execution stored as
\* paused at a wait step, after which the signal state holds 'verified'
\* with the key of the wait
C25_SignalAfterRestart ==
  \A e \in ExecIds :
    ( /\ restartCount >= 1
      /\ signalCount' = signalCount + 1
      /\ WaitPosition(e) > 1
      /\ workflowState'[e]["signal:verified"] # NoValue
      /\ workflowState'[e]["signal:verified"] # workflowState[e]["signal:verified"]
      /\ \E u \in UserIds :
           u = WaitKey(e, WaitPosition(e)) /\ workflowState'[e]["signal:verified"] = [userId |-> u] )
    => LET w == WaitPosition(e)
           r == runs'[Len(runs')]
       IN /\ Len(runs') = Len(runs) + 1
          /\ r.eid = e /\ r.origin = "signal" /\ r.epoch = restartCount
          /\ r.calls # <<>>
          /\ r.calls[1].step = w /\ r.calls[1].outcome = "ok"
          /\ r.exec.steps[w].status = "completed"
          /\ \A k \in 1..(w - 1) : r.exec.steps[k] = db[e].steps[k]
          /\ \A j \in 1..(Len(r.calls) - 1) :
               r.calls[j + 1].step \in {r.calls[j].step, r.calls[j].step + 1}
          /\ Len(r.calls) = 1 => r.result = "completed"
          /\ r.result \in {"none", "completed"}
          /\ r.result = "completed" => db'[e].status = "completed"
          /\ r.result = "none" => db'[e].status = "running" /\ db'[e].currentStep = r.def.steps[w + 1].id

C26_RunningResumesAfterRestart ==
  \A e \in ExecIds :
    (restartCount >= 1 /\ db[e] # NoRecord /\ db[e].status = "running") =>
      \E i \in Runs : runs[i].eid = e /\ Active(i)

\* the position of the send step in the definition of execution e, 0 if none
SendPosition(e) ==
  IF db[e] = NoRecord THEN 0
  ELSE FindIndex(GetDefinition(db[e].workflowId).steps, sendVerificationEmailStep.id)

(***************************************************************************)
(* C29.  Sending the verification email is idempotent and retry-safe: for  *)
(* one execution the email service delivers at most one verification       *)
(* email, however often the send handler is invoked, and every run that    *)
(* holds the send step as completed holds the token of that one email as   *)
(* its output.                                                             *)
(***************************************************************************)
C29_EmailSentOnce ==
  \A e \in ExecIds :
    /\ Len(emails[e]) <= 1
    /\ \A i \in Runs :
         (runs[i].eid = e /\ SendPosition(e) > 0 /\ Len(emails[e]) >= 1) =>
           LET stepExecution == runs[i].exec.steps[SendPosition(e)]
           IN stepExecution.status = "completed" =>
                stepExecution.output.verificationToken = emails[e][1]

\* run i has, in this step, invoked a handler for the first time in the run
\* (attempt 1), and the invocation is the last thing but a pause the run did
C31_FirstInvocation ==
  \A i \in 1..Len(runs') :
    LET r == runs'[i]
    IN (NewCalls(i) # {}
        /\ r.calls[Len(r.calls)].attempt = 1
        /\ r.calls[Len(r.calls)].outcome \in {"inflight", "pause"}) =>
         LET call == r.calls[Len(r.calls)]
             row == db'[r.eid]
         IN /\ row # NoRecord
            /\ row.currentStep = r.def.steps[call.step].id
            /\ \A k \in 1..(call.step - 1) :
                 /\ row.steps[k].status = "completed"
                 /\ row.steps[k].output # NoValue
                 /\ row.steps[k].output = r.exec.steps[k].output

(***************************************************************************)
(* C31.  Before a step's handler is invoked for the first time in an       *)
(* executeWorkflow run, the store holds a record of the execution in which *)
(* currentStep is the id of that step and every preceding step is          *)
(* completed with its output.                                              *)
(***************************************************************************)
C31_StoredBeforeInvocation == [][C31_FirstInvocation]_vars

\* a run awaits the first invocation of the third step; the store names
\* that step and holds the two steps before it as completed
C31_Witness ==
  \E i \in Runs :
    /\ runs[i].pc = "handler"
    /\ runs[i].calls # <<>>
    /\ runs[i].calls[Len(runs[i].calls)].step = 3
    /\ runs[i].calls[Len(runs[i].calls)].attempt = 1
    /\ db[runs[i].eid].currentStep = runs[i].def.steps[3].id
    /\ db[runs[i].eid].steps[1].status = "completed"
    /\ db[runs[i].eid].steps[2].status = "completed"

(***************************************************************************)
(* C32.  While attempt k of a step is in progress (its handler invoked and *)
(* not yet returned), the run holds the step with status running if k = 1  *)
(* and retrying if k > 1, and with attempts equal to k.                    *)
(***************************************************************************)
C32_StatusDuringAttempt ==
  \A i \in Runs :
    runs[i].pc = "handler" =>
      LET r == runs[i]
          call == r.calls[Len(r.calls)]
          stepExecution == r.exec.steps[FindStep(r.exec.steps, r.def.steps[call.step].id)]
      IN /\ call.outcome = "inflight"
         /\ call.attempt >= 1
         /\ call.attempt = 1 => stepExecution.status = "running"
         /\ call.attempt > 1 => stepExecution.status = "retrying"
         /\ stepExecution.attempts = call.attempt

\* the second attempt of a step is in progress
C32_Witness ==
  \E i \in Runs :
    /\ runs[i].pc = "handler"
    /\ runs[i].calls[Len(runs[i].calls)].attempt = 2
    /\ runs[i].exec.steps[runs[i].calls[Len(runs[i].calls)].step].status = "retrying"
    /\ runs[i].exec.steps[runs[i].calls[Len(runs[i].calls)].step].attempts = 2

\* run i has, in this step, finished the step loop: the store holds the
\* execution as completed with no current step
C33_CompletionStep ==
  \A i \in 1..Len(runs') :
    JustCompleted(i) =>
      /\ db'[runs'[i].eid].status = "completed"
      /\ db'[runs'[i].eid].currentStep = Undefined
      /\ db'[runs'[i].eid].completedAt # Undefined

\* every stored record with status completed has every step completed
C33_CompletedMeansAllCompleted ==
  \A e \in ExecIds :
    (db[e] # NoRecord /\ db[e].status = "completed") =>
      \A k \in 1..Len(db[e].steps) : db[e].steps[k].status = "completed"

(***************************************************************************)
(* C33.  After the last step of a run completes, the execution is          *)
(* persisted with status completed and currentStep cleared; and in every   *)
(* persisted record whose status is completed every step has status        *)
(* completed.                                                              *)
(***************************************************************************)
C33_CompletionPersisted ==
  /\ [][C33_CompletionStep]_vars
  /\ []C33_CompletedMeansAllCompleted

\* a run that went through the last two steps has completed the execution
C33_Witness ==
  \E i \in Runs :
    /\ runs[i].result = "completed"
    /\ Len(runs[i].calls) >= 2
    /\ runs[i].calls[Len(runs[i].calls)].step = Len(runs[i].def.steps)
    /\ runs[i].calls[Len(runs[i].calls)].outcome = "ok"
    /\ db[runs[i].eid].status = "completed"
    /\ db[runs[i].eid].currentStep = Undefined
    /\ \A k \in 1..Len(db[runs[i].eid].steps) : db[runs[i].eid].steps[k].status = "completed"

\* the inputs with which the handler of the step at position s has been
\* invoked in the runs of execution e made before run i
EarlierInputs(e, s, i) ==
  UNION { { runs[n].calls[j].input : j \in {m \in 1..Len(runs[n].calls) : runs[n].calls[m].step = s} }
          : n \in {m \in 1..(i - 1) : runs[m].eid = e} }

(***************************************************************************)
(* C34.  When signalWorkflow re-enters executeWorkflow, the step that is   *)
(* re-executed receives the input it received when it was invoked before   *)
(* in that execution; when it is the first step of the workflow, that is   *)
(* the initial input given to startWorkflow.                               *)
(***************************************************************************)
C34_ResumeKeepsInput ==
  \A i \in Runs :
    (runs[i].origin = "signal" /\ runs[i].calls # <<>>) =>
      LET call == runs[i].calls[1]
      IN /\ \A v \in EarlierInputs(runs[i].eid, call.step, i) : call.input = v
         /\ call.step = 1 => call.input = StartInput(runs[i].eid)

\* no run of execution e is in flight
Quiescent(e) == \A i \in Runs : runs[i].eid = e => ~Active(i)

\* the stored execution e is paused at a wait step and its signal state
\* holds 'verified' with the userId the wait step compares it with: the
\* userId of the input the step is given, the output of the step before it
MatchingSignalUnseen(e) ==
  /\ WaitPosition(e) > 0
  /\ workflowState[e]["signal:verified"] # NoValue
  /\ \E u \in UserIds :
       u = WaitKey(e, WaitPosition(e)) /\ workflowState[e]["signal:verified"] = [userId |-> u]

\* a run that was already under way reaches a wait step in this step: the
\* handler succeeds when the signal state holds the userId of its input
C35_EarlySignalObserved ==
  \A i \in 1..Len(runs) : \A j \in NewCalls(i) :
    LET r == runs'[i]
        call == r.calls[j]
    IN (r.def.steps[call.step].handler = "wait"
        /\ \E u \in UserIds : u = call.input.userId
                              /\ workflowState[r.eid]["signal:verified"] = [userId |-> u])
       => /\ call.outcome = "ok"
          /\ r.exec.steps[call.step].status = "completed"
          /\ r.result # "paused"

C36_CompletedHasNoError ==
  /\ \A i \in Runs : \A k \in 1..Len(runs[i].exec.steps) :
       runs[i].exec.steps[k].status = "completed" => runs[i].exec.steps[k].error = Undefined
  /\ \A e \in ExecIds :
       db[e] # NoRecord =>
         \A k \in 1..Len(db[e].steps) :
           db[e].steps[k].status = "completed" => db[e].steps[k].error = Undefined

\* the requests with a token that reached the call of signalWorkflow
CallsFor(token) == {q \in 1..Len(requests) : requests[q].token = token /\ requests[q].called}

\* a token that was generated is no longer in the table
Deleted(token) == token <= tokenCount /\ \A row \in verificationTokens : row.token # token

\* the requests with a token whose call of signalWorkflow passed the guard
DeliveredFor(token) == {q \in CallsFor(token) : requests[q].delivered}

(***************************************************************************)
(* C37.  Each verification token causes at most one signalWorkflow call:   *)
(* once a verify request for a token has been accepted, every later or     *)
(* concurrent request with the same token is rejected as invalid, and a    *)
(* token is deleted exactly when its signal was delivered: a deleted token *)
(* has a request whose signal passed the guard of signalWorkflow, and a    *)
(* token with such a request that has been answered is deleted.            *)
(***************************************************************************)
C37_TokenSignalsOnce ==
  \A token \in 1..tokenCount :
    /\ Cardinality(CallsFor(token)) <= 1
    /\ Deleted(token) => DeliveredFor(token) # {}
    /\ (\E q \in DeliveredFor(token) : requests[q].status # "awaiting") => Deleted(token)

====
